---- MODULE Spec2Model ----
(***************************************************************************)
(* Model of the AI test generator pipeline (src/ai-test-generator).        *)
(*                                                                         *)
(* process_website (app.py) is a Python generator: every action below is   *)
(* one resumption of the generator by its consumer, i.e. the code between  *)
(* two consecutive yield statements, including every collaborator call     *)
(* made on the way (extract_elements, generate_test_cases,                 *)
(* generate_selenium_script, the exporters).  Each run keeps its locals in *)
(* run[r]; the output directory and the module-level GenAI client are      *)
(* shared by all runs.  handler is a call of generate_test_cases taken on  *)
(* its own, with what went in and what came out.                           *)
(***************************************************************************)
EXTENDS Integers, Sequences, FiniteSets, TLC

VARIABLES run, files, dirExists, client, handler

vars == <<run, files, dirExists, client, handler>>

(***************************************************************************)
(* Bounds of the model.                                                    *)
(***************************************************************************)
\* largest number of records in a JSON list answered by the model
MaxRows == 2

(***************************************************************************)
(* Program constants.                                                      *)
(***************************************************************************)
max_elements_for_ai == 100

RunIds == {1, 2}

\* slider range of the UI is 1..10 (app.py:433); two values suffice to have
\* the model answer fewer, as many and more cases than requested
NumTestCasesChoices == {1, 2}

(***************************************************************************)
(* Strings that the code inspects character by character are sequences of  *)
(* one-character strings.                                                  *)
(***************************************************************************)
HttpPrefix == <<"h", "t", "t", "p", ":", "/", "/">>
HttpsPrefix == <<"h", "t", "t", "p", "s", ":", "/", "/">>

\* "", "ftp://a", "http:/a", "https:a.b" are rejected
InvalidUrls ==
    { <<>>,
      <<"f", "t", "p", ":", "/", "/", "a">>,
      <<"h", "t", "t", "p", ":", "/", "a">>,
      <<"h", "t", "t", "p", "s", ":", "a", ".", "b">> }

\* "http://a.b" and "https://c/a.x" (both give the file stem "a")
ValidUrls ==
    { <<"h", "t", "t", "p", ":", "/", "/", "a", ".", "b">>,
      <<"h", "t", "t", "p", "s", ":", "/", "/", "c", "/", "a", ".", "x">> }

Urls == InvalidUrls \cup ValidUrls

\* str.startswith
startswith(s, p) == Len(s) >= Len(p) /\ SubSeq(s, 1, Len(p)) = p

\* the urls of a run that is alone: the rejected ones and "http://a.b"
SoloUrls == InvalidUrls \cup { u \in ValidUrls : startswith(u, HttpPrefix) }

\* variant: only the letters of the scheme are tested
UrlAccepted_SchemeLettersOnly(url) ==
    url # <<>> /\ startswith(url, <<"h", "t", "t", "p">>)

\* the test of app.py:292, negated
UrlAccepted(url) ==
    url # <<>> /\ (startswith(url, HttpPrefix) \/ startswith(url, HttpsPrefix))

\* os.path.basename: what follows the last "/"
basename(s) ==
    LET slashes == { i \in 1..Len(s) : s[i] = "/" }
    IN  IF slashes = {} THEN s
        ELSE LET last == CHOOSE i \in slashes : \A j \in slashes : j <= i
             IN  SubSeq(s, last + 1, Len(s))

\* str.split('.')[0]: what precedes the first "."
SplitDotFirst(s) ==
    LET dots == { i \in 1..Len(s) : s[i] = "." }
    IN  IF dots = {} THEN s
        ELSE LET first == CHOOSE i \in dots : \A j \in dots : i <= j
             IN  SubSeq(s, 1, first - 1)

FileStem(url) == SplitDotFirst(basename(url))

(***************************************************************************)
(* Artifact paths: None, the empty string (the exporters' failure          *)
(* indicator) or os.path.join(OUTPUT_DIR, filename).                       *)
(***************************************************************************)
OUTPUT_DIR == "outputs"

None == [kind |-> "None", name |-> <<>>]
EmptyPath == [kind |-> "str", name |-> <<>>]
JoinPath(prefix, stem, ext) ==
    [kind |-> "str", name |-> <<OUTPUT_DIR, prefix, stem, ext>>]

(***************************************************************************)
(* Tables (pandas DataFrames): column labels and rows.                     *)
(***************************************************************************)
TestCaseColumns ==
    <<"Test Case ID", "Test Scenario", "Steps to Execute", "Expected Result">>
ScriptColumns == <<"Test Case ID", "Python Selenium Code">>

DataFrame(columns, rows) == [columns |-> columns, rows |-> rows]

\* DataFrame.empty: some axis has length 0
empty(df) == Len(df.columns) = 0 \/ Len(df.rows) = 0

ErrorMarkers == {"PARSE_ERROR", "API_ERROR", "ERROR"}

\* df[~df['Test Case ID'].isin(drop)]: the rows whose id is not in drop, in order
RECURSIVE SelectRows(_, _)
SelectRows(rows, drop) ==
    IF rows = <<>> THEN <<>>
    ELSE IF Head(rows).id \in drop
         THEN SelectRows(Tail(rows), drop)
         ELSE <<Head(rows)>> \o SelectRows(Tail(rows), drop)

\* Series.isin(values).any()
AnyIdIn(df, values) == \E i \in 1..Len(df.rows) : df.rows[i].id \in values

(***************************************************************************)
(* Texts.  A text is a record so that every text compares with every       *)
(* other: plain texts carry a tag; the content answered by the generative  *)
(* model says whether it is prose, a JSON value that is not a list, or a   *)
(* JSON list with its items, and whether it has surrounding whitespace.    *)
(***************************************************************************)
Plain(tag) == [kind |-> "plain", tag |-> tag, padded |-> FALSE, items |-> <<>>]

\* str.strip
strip(text) == [text EXCEPT !.padded = FALSE]

\* ids the generative model may put in a record
ResponseIds == {"TC001", "TC002", "PARSE_ERROR", "API_ERROR", "ERROR"}

\* a JSON list item: something that is not an object, an object with the
\* four required keys, or an object that lacks "Test Case ID"
NonDict == [isDict |-> FALSE, keys |-> {}, id |-> ""]
FullDict(id) ==
    [isDict |-> TRUE,
     keys |-> {"Test Case ID", "Test Scenario", "Steps to Execute",
               "Expected Result"},
     id |-> id]
PartialDict ==
    [isDict |-> TRUE, keys |-> {"Test Scenario", "Expected Result"}, id |-> ""]

Items == {NonDict, PartialDict} \cup { FullDict(id) : id \in ResponseIds }

ItemLists == UNION { [1..n -> Items] : n \in 0..MaxRows }

ResponseContents ==
    [kind : {"prose", "json_scalar"}, tag : {""}, padded : BOOLEAN,
     items : {<<>>}]
    \cup [kind : {"json_list"}, tag : {""}, padded : BOOLEAN, items : ItemLists]

\* what client.chat.completions.create does: raise, or answer a content
NoContent == Plain("")
ApiOutcomes ==
    [raises : {"RateLimitError", "APIError", "Exception"}, content : {NoContent}]
    \cup [raises : {""}, content : ResponseContents]

(***************************************************************************)
(* genai_handler.py                                                        *)
(***************************************************************************)
\* variant: any(...) instead of all(...)
HasRequiredKeys_Some(item) ==
    \E i \in 1..Len(TestCaseColumns) : TestCaseColumns[i] \in item.keys

\* all(k in parsed_data[0] for k in [...four keys...])
HasRequiredKeys(item) ==
    \A i \in 1..Len(TestCaseColumns) : TestCaseColumns[i] \in item.keys

\* returns the parsed list, or the empty list when the content is rejected
parse_ai_test_cases(response_content) ==
    IF response_content.kind # "json_list"
    THEN <<>>   \* JSONDecodeError, or not a list
    ELSE LET parsed_data == response_content.items
         IN  IF /\ \A i \in 1..Len(parsed_data) : parsed_data[i].isDict
                /\ parsed_data # <<>>
                /\ HasRequiredKeys(parsed_data[1])
             THEN parsed_data
             ELSE <<>>

\* one row of pd.DataFrame(test_cases_list): a missing key gives NaN
RowOfDict(d) ==
    [id       |-> IF "Test Case ID" \in d.keys THEN d.id ELSE "NaN",
     scenario |-> IF "Test Scenario" \in d.keys
                  THEN Plain("scenario") ELSE Plain("NaN"),
     steps    |-> IF "Steps to Execute" \in d.keys
                  THEN Plain("steps") ELSE Plain("NaN"),
     expected |-> IF "Expected Result" \in d.keys
                  THEN Plain("expected") ELSE Plain("NaN")]

ErrorRow(id, scenario, steps) ==
    [id |-> id, scenario |-> Plain(scenario), steps |-> steps,
     expected |-> Plain("N/A")]

\* variant: every failure returns the empty table, as the docstring says
generate_test_cases_EmptyOnFailure(theClient, api) ==
    IF theClient = "None" \/ api.raises # ""
    THEN DataFrame(<<>>, <<>>)
    ELSE LET test_cases_list == parse_ai_test_cases(strip(api.content))
         IN  IF test_cases_list = <<>>
             THEN DataFrame(<<>>, <<>>)
             ELSE DataFrame(TestCaseColumns,
                      [i \in 1..Len(test_cases_list) |->
                          RowOfDict(test_cases_list[i])])

\* genai_handler.generate_test_cases; theClient is the module-level client,
\* api what the completion call does when it is made
generate_test_cases(theClient, api) ==
    IF theClient = "None"
    THEN DataFrame(<<>>, <<>>)
    ELSE IF api.raises = "RateLimitError"
    THEN DataFrame(TestCaseColumns,
             <<ErrorRow("API_ERROR", "Rate Limit Reached", Plain("str(e)"))>>)
    ELSE IF api.raises = "APIError"
    THEN DataFrame(TestCaseColumns,
             <<ErrorRow("API_ERROR", "API Communication Issue", Plain("str(e)"))>>)
    ELSE IF api.raises = "Exception"
    THEN DataFrame(TestCaseColumns,
             <<ErrorRow("ERROR", "Unexpected Error", Plain("str(e)"))>>)
    ELSE LET response_content == strip(api.content)
             test_cases_list == parse_ai_test_cases(response_content)
         IN  IF test_cases_list = <<>>
             THEN DataFrame(TestCaseColumns,
                      <<ErrorRow("PARSE_ERROR", "Failed to parse AI response",
                                 response_content)>>)
             ELSE DataFrame(TestCaseColumns,
                      [i \in 1..Len(test_cases_list) |->
                          RowOfDict(test_cases_list[i])])

\* a call of generate_test_cases on its own: what the completion call does,
\* what parse_ai_test_cases returned and the table returned
HandlerIdle ==
    [phase |-> "idle", api |-> [raises |-> "", content |-> NoContent],
     parsed |-> <<>>, table |-> DataFrame(<<>>, <<>>)]

\* what the completion call does for a script request: raise, or answer a
\* script that may be wrapped in a markdown fence.  The three except
\* clauses return an error comment and differ only in its text, which the
\* caller never reads: one of them is drawn.
ScriptApiOutcomes ==
    [raises : {"RateLimitError"}, fenced : {FALSE}]
    \cup [raises : {""}, fenced : BOOLEAN]

\* genai_handler.generate_selenium_script: always returns a string; the
\* fence, if any, is removed
generate_selenium_script(theClient, api) ==
    IF theClient = "None" THEN "Error: GenAI client not initialized."
    ELSE IF api.raises = "RateLimitError" THEN "# Error: API Rate Limit Reached"
    ELSE IF api.raises = "APIError" THEN "# Error: API Communication Issue"
    ELSE IF api.raises = "Exception"
    THEN "# Error: Unexpected error during script generation"
    ELSE "script"

(***************************************************************************)
(* scraper.py: extract_elements returns the list of extracted elements     *)
(* (empty when scraping failed inside its try block) or raises, since the  *)
(* driver installation and driver.quit() are outside the try block.  An    *)
(* element is identified by its position in extraction order.              *)
(***************************************************************************)
\* no element, a few, as many as the prompt cap allows, one more
ElementCounts == {0, 2, max_elements_for_ai, max_elements_for_ai + 1}

ExtractOutcomes ==
    [raises : {TRUE}, n : {0}] \cup [raises : {FALSE}, n : ElementCounts]

extract_elements(outcome) == [i \in 1..outcome.n |-> i]

\* json.dumps of a list of elements; the initial elements view is "{}"
EmptyJsonObject == [kind |-> "object", items |-> <<>>]
json_dumps(elements) == [kind |-> "list", items |-> elements]

(***************************************************************************)
(* utils.py: the exporters.  env says what the file system does: whether   *)
(* os.makedirs succeeds when the directory is missing, and whether the     *)
(* write succeeds.  The result carries the return value, whether the call  *)
(* raised (os.makedirs is outside the try block), the level of the record  *)
(* it hands to the logging module, and the file system after the call.     *)
(***************************************************************************)
SaveEnvs == [makedirs_ok : BOOLEAN, write_ok : BOOLEAN]

NoFiles == [n \in {} |-> 0]

WriteFile(fs, name, content) ==
    [n \in (DOMAIN fs) \cup {name} |-> IF n = name THEN content ELSE fs[n]]

FileContent(elements, columns, rows) ==
    [elements |-> elements, columns |-> columns, rows |-> rows]

Save(filepath, content, dir, fs, env) ==
    IF ~dir /\ ~env.makedirs_ok
    THEN [raised |-> TRUE, ret |-> None, level |-> "", dir |-> dir, fs |-> fs]
    ELSE IF env.write_ok
    THEN [raised |-> FALSE, ret |-> filepath, level |-> "INFO", dir |-> TRUE,
          fs |-> WriteFile(fs, filepath.name, content)]
    ELSE [raised |-> FALSE, ret |-> EmptyPath, level |-> "ERROR", dir |-> TRUE,
          fs |-> fs]

save_elements_to_json(elements, stem, dir, fs, env) ==
    Save(JoinPath("elements_", stem, ".json"),
         FileContent(elements, <<>>, <<>>), dir, fs, env)

save_test_cases_to_excel(test_cases_df, prefix, stem, ext, dir, fs, env) ==
    Save(JoinPath(prefix, stem, ext),
         FileContent(<<>>, test_cases_df.columns, test_cases_df.rows),
         dir, fs, env)

save_scripts_to_excel(scripts_data, stem, dir, fs, env) ==
    Save(JoinPath("test_scripts_", stem, ".xlsx"),
         FileContent(<<>>, ScriptColumns, scripts_data), dir, fs, env)

(***************************************************************************)
(* app.py: process_website.                                                *)
(*                                                                         *)
(* A log line is the message with the values formatted into it.  The log   *)
(* of a snapshot is "\n".join(status_updates), kept here as the sequence   *)
(* of its lines.                                                           *)
(***************************************************************************)
Line(msg, url, id, n, path) ==
    [line |-> msg, url |-> url, id |-> id, n |-> n, path |-> path]

MsgInputError == "Error: Please enter a valid URL starting with http:// or https://"
MsgStarted == "Processing started..."
MsgScraping == "[1/3] Scraping UI elements from {url}..."
MsgExtractFailed == "Error: Failed to extract elements. Check URL or website structure."
MsgExtracted == "Extracted {n} elements. Saved to {path}"
MsgNote == "Note: Using first {n} elements for AI analysis due to size."
MsgGenerating == "[2/3] Generating {n} test cases using GenAI..."
MsgWarning == "Warning: Failed to generate valid test cases or encountered an error."
MsgStopping == "Stopping process due to critical test case generation failure."
MsgGenerated == "Generated {n} test cases. Saved to {path}"
MsgScripts == "[3/3] Generating Selenium scripts..."
MsgNoValid == "No valid test cases found to generate scripts for"
MsgMapping == "Mapping {n} test cases to scripts..."
MsgScriptFor == "Generating script for: {id}..."
MsgScriptsDone == "Generated {n} scripts. Saved to {path}"
MsgSkipping == "Skipping script generation due to previous errors in test case generation."
MsgFinished == "Processing finished successfully!"
MsgCritical == "CRITICAL ERROR: An unexpected error occurred: {e}"

\* the locals of process_website when the generator is created (270-277);
\* locals assigned later start with an empty value
InitialLocals(url, num_test_cases, pc) ==
    [pc |-> pc,
     url |-> url,
     num_test_cases |-> num_test_cases,
     elements_json_str |-> EmptyJsonObject,
     elements_filepath |-> None,
     test_cases_df |-> DataFrame(TestCaseColumns, <<>>),
     test_cases_filepath |-> None,
     scripts_df |-> DataFrame(ScriptColumns, <<>>),
     scripts_filepath |-> None,
     status_updates |-> <<>>,
     elements_data |-> <<>>,
     elements_for_ai |-> <<>>,
     generated_tc_df |-> DataFrame(<<>>, <<>>),
     generation_failed |-> FALSE,
     valid_test_cases |-> <<>>,
     scripts_data |-> <<>>,
     index |-> 0,
     out |-> <<>>,
     calls |-> <<>>,
     prompt_elements |-> <<>>,
     script_calls |-> <<>>,
     logging |-> <<>>,
     fault |-> ""]

\* current_outputs(): the snapshot handed to the consumer
current_outputs(s) ==
    [elements_json_str |-> s.elements_json_str,
     test_cases_df |-> s.test_cases_df,
     scripts_df |-> s.scripts_df,
     elements_filepath |-> s.elements_filepath,
     test_cases_filepath |-> s.test_cases_filepath,
     scripts_filepath |-> s.scripts_filepath,
     log |-> s.status_updates]

\* variant: the newest line is put first
Log_Prepend(s, line) == [s EXCEPT !.status_updates = <<line>> \o @]

\* variant: status_updates is one list of the module, which every run
\* appends to (the list is then the longest log there is)
Log_Shared(s, line) ==
    LET longest == CHOOSE r \in RunIds :
                       \A q \in RunIds :
                           Len(run[q].status_updates) <= Len(run[r].status_updates)
    IN  [s EXCEPT !.status_updates = Append(run[longest].status_updates, line)]

\* status_updates.append(line)
Log(s, line) == [s EXCEPT !.status_updates = Append(@, line)]

\* yield current_outputs()
Yield(s) == [s EXCEPT !.out = Append(@, current_outputs(s))]

LogYield(s, line, pc) == [Yield(Log(s, line)) EXCEPT !.pc = pc]

\* the collaborator call is recorded when it is made (prompt_elements and
\* script_calls keep the arguments of the calls to the GenAI handler)
Call(s, fn) == [s EXCEPT !.calls = Append(@, fn)]

\* logging.info / logging.error of an exporter (utils.py), kept with the
\* run that made the call
Logging(s, fn, level) ==
    [s EXCEPT !.logging = Append(@, [fn |-> fn, level |-> level])]

\* the collaborator call fn raises
Raise(s, fn) == [s EXCEPT !.fault = fn]

\* variant: the fault leaves the generator, nothing is logged or emitted
HandleException_Propagate(s) == [s EXCEPT !.pc = "done"]

\* variant: the handler emits a blank error snapshot instead of the
\* current state
HandleException_Blank(s) ==
    LogYield([s EXCEPT !.elements_json_str = EmptyJsonObject,
                       !.test_cases_df = DataFrame(TestCaseColumns, <<>>),
                       !.scripts_df = DataFrame(ScriptColumns, <<>>)],
             Line(MsgCritical, <<>>, "", 0, None), "done")

\* except Exception (405-408): one line, one snapshot, the generator ends
HandleException(s) ==
    LogYield(s, Line(MsgCritical, <<>>, "", 0, None), "done")

\* variant: an empty extraction is not noticed
ExtractionFailed_Never(elements_data) == FALSE

\* 307: if not elements_data
ExtractionFailed(elements_data) == elements_data = <<>>

\* variant: the failure is shown without a line of its own
FailedExtraction_Silent(s) == [Yield(s) EXCEPT !.pc = "done"]

\* variant: the extraction is tried again after a failure
FailedExtraction_Retry(s) ==
    LogYield(s, Line(MsgExtractFailed, <<>>, "", 0, None), "scraping")

\* 308-310: the failure is logged and shown, the generator returns
FailedExtraction(s) ==
    LogYield(s, Line(MsgExtractFailed, <<>>, "", 0, None), "done")

\* 291-299: input validation, then the first progress snapshot
ValidateInput(r) ==
    LET s == run[r]
    IN  /\ s.pc = "start"
        /\ run' = [run EXCEPT ![r] =
              IF ~UrlAccepted(s.url)
              THEN LogYield(s, Line(MsgInputError, <<>>, "", 0, None), "done")
              ELSE LogYield(s, Line(MsgStarted, <<>>, "", 0, None), "started")]
        /\ UNCHANGED <<files, dirExists, client, handler>>

\* 302-303
AnnounceScraping(r) ==
    LET s == run[r]
    IN  /\ s.pc = "started"
        /\ run' = [run EXCEPT ![r] =
              LogYield(s, Line(MsgScraping, s.url, "", 0, None), "scraping")]
        /\ UNCHANGED <<files, dirExists, client, handler>>

\* 305-316: the extraction call, the export of the elements, and the
\* snapshot that shows them; outcomes is what the extractor may do
ExtractionWith(r, outcomes) ==
    LET s == run[r]
    IN  /\ s.pc = "scraping"
        /\ \E o \in outcomes, env \in SaveEnvs :
             LET s1 == Call(s, "extract_elements")
                 elements_data == extract_elements(o)
                 s2 == [s1 EXCEPT !.elements_data = elements_data]
                 s3 == [s2 EXCEPT !.elements_json_str = json_dumps(elements_data)]
                 s4 == Call(s3, "save_elements_to_json")
                 saved == save_elements_to_json(elements_data, FileStem(s.url),
                                                dirExists, files, env)
                 s5 == [Logging(s4, "save_elements_to_json", saved.level)
                          EXCEPT !.elements_filepath = saved.ret]
             IN  IF o.raises
                 THEN /\ run' = [run EXCEPT ![r] =
                                   HandleException(Raise(s1, "extract_elements"))]
                      /\ UNCHANGED <<files, dirExists>>
                 ELSE IF ExtractionFailed(elements_data)
                 THEN /\ run' = [run EXCEPT ![r] = FailedExtraction(s2)]
                      /\ UNCHANGED <<files, dirExists>>
                 ELSE IF saved.raised
                 THEN /\ run' = [run EXCEPT ![r] =
                                   HandleException(Raise(s4, "save_elements_to_json"))]
                      /\ UNCHANGED <<files, dirExists>>
                 ELSE /\ run' = [run EXCEPT ![r] =
                            LogYield(s5, Line(MsgExtracted, <<>>, "",
                                              Len(elements_data), saved.ret),
                                     "extracted")]
                      /\ files' = saved.fs
                      /\ dirExists' = saved.dir
        /\ UNCHANGED <<client, handler>>

Extraction(r) == ExtractionWith(r, ExtractOutcomes)

\* variant: the prompt gets every element
ElementsForAi_Full(elements_data) == elements_data

\* 320-325: the elements that go into the prompt
ElementsForAi(elements_data) ==
    IF Len(elements_data) > max_elements_for_ai
    THEN SubSeq(elements_data, 1, max_elements_for_ai)
    ELSE elements_data

\* 318-329: the view of the elements sent to the model; the note about the
\* truncation has a snapshot of its own
AfterExtraction(r) ==
    LET s == run[r]
        s1 == [s EXCEPT !.elements_for_ai = ElementsForAi(s.elements_data)]
    IN  /\ s.pc = "extracted"
        /\ run' = [run EXCEPT ![r] =
              IF Len(s.elements_data) > max_elements_for_ai
              THEN LogYield(s1, Line(MsgNote, <<>>, "", max_elements_for_ai, None),
                            "noted")
              ELSE LogYield(s1, Line(MsgGenerating, <<>>, "", s.num_test_cases,
                                     None),
                            "generating")]
        /\ UNCHANGED <<files, dirExists, client, handler>>

\* 328-329, after the truncation note
AnnounceGeneration(r) ==
    LET s == run[r]
    IN  /\ s.pc = "noted"
        /\ run' = [run EXCEPT ![r] =
              LogYield(s, Line(MsgGenerating, <<>>, "", s.num_test_cases, None),
                       "generating")]
        /\ UNCHANGED <<files, dirExists, client, handler>>

\* variant: only PARSE_ERROR rows are classified as a failure
GenerationFailed_ParseOnly(generated_tc_df) ==
    empty(generated_tc_df) \/ AnyIdIn(generated_tc_df, {"PARSE_ERROR"})

\* variant: an empty table is not classified as a failure
GenerationFailed_IdsOnly(generated_tc_df) ==
    AnyIdIn(generated_tc_df, ErrorMarkers)

\* 334-335
GenerationFailed(generated_tc_df) ==
    empty(generated_tc_df) \/ AnyIdIn(generated_tc_df, ErrorMarkers)

\* 331-357: the synthesis call, the classification of its table, the
\* export; apis is what the completion call may do
CaseGenerationWith(r, apis) ==
    LET s == run[r]
    IN  /\ s.pc = "generating"
        /\ \E api \in apis, env \in SaveEnvs :
             LET generated_tc_df == generate_test_cases(client, api)
                 generation_failed == GenerationFailed(generated_tc_df)
                 s1 == [Call(s, "generate_test_cases") EXCEPT
                           !.prompt_elements = s.elements_for_ai,
                           !.generated_tc_df = generated_tc_df,
                           !.generation_failed = generation_failed]
                 s2 == IF generation_failed
                       THEN Log(s1, Line(MsgWarning, <<>>, "", 0, None))
                       ELSE s1
                 keep == ~generation_failed \/ ~empty(generated_tc_df)
                 s3 == Call([s2 EXCEPT !.test_cases_df = generated_tc_df],
                            "save_test_cases_to_excel")
                 saved == save_test_cases_to_excel(
                              generated_tc_df, "test_cases_", FileStem(s.url),
                              IF generation_failed THEN "_error.xlsx" ELSE ".xlsx",
                              dirExists, files, env)
                 s4 == [Logging(s3, "save_test_cases_to_excel", saved.level)
                          EXCEPT !.test_cases_filepath = saved.ret]
             IN  IF ~keep
                 THEN /\ run' = [run EXCEPT ![r] =
                            [Yield([s2 EXCEPT !.test_cases_filepath = None])
                                EXCEPT !.pc = "warned"]]
                      /\ UNCHANGED <<files, dirExists>>
                 ELSE IF saved.raised
                 THEN /\ run' = [run EXCEPT ![r] =
                                   HandleException(Raise(s3, "save_test_cases_to_excel"))]
                      /\ UNCHANGED <<files, dirExists>>
                 ELSE /\ run' = [run EXCEPT ![r] =
                            IF generation_failed
                            THEN [Yield(s4) EXCEPT !.pc = "warned"]
                            ELSE LogYield(s4,
                                     Line(MsgGenerated, <<>>, "",
                                          Len(generated_tc_df.rows), saved.ret),
                                     "cases_saved")]
                      /\ files' = saved.fs
                      /\ dirExists' = saved.dir
        /\ UNCHANGED <<client, handler>>

CaseGeneration(r) == CaseGenerationWith(r, ApiOutcomes)

\* variant: every error marker is critical
CriticalFailure_AnyMarker(test_cases_df) ==
    empty(test_cases_df) \/ AnyIdIn(test_cases_df, ErrorMarkers)

\* variant: only an empty table is critical
CriticalFailure_EmptyOnly(test_cases_df) == empty(test_cases_df)

\* 348: the failure is critical
CriticalFailure(test_cases_df) ==
    empty(test_cases_df) \/ AnyIdIn(test_cases_df, {"PARSE_ERROR"})

\* 347-351 and 361-362, after the warning snapshot
AfterWarning(r) ==
    LET s == run[r]
    IN  /\ s.pc = "warned"
        /\ run' = [run EXCEPT ![r] =
              IF CriticalFailure(s.test_cases_df)
              THEN LogYield(s, Line(MsgStopping, <<>>, "", 0, None), "done")
              ELSE LogYield(s, Line(MsgScripts, <<>>, "", 0, None), "stage3")]
        /\ UNCHANGED <<files, dirExists, client, handler>>

\* 361-362, after the snapshot of the generated cases
AnnounceScripts(r) ==
    LET s == run[r]
    IN  /\ s.pc = "cases_saved"
        /\ run' = [run EXCEPT ![r] =
              LogYield(s, Line(MsgScripts, <<>>, "", 0, None), "stage3")]
        /\ UNCHANGED <<files, dirExists, client, handler>>

\* variant: the error rows are not filtered out
ValidTestCases_Unfiltered(test_cases_df) == test_cases_df.rows

\* 366
ValidTestCases(test_cases_df) == SelectRows(test_cases_df.rows, ErrorMarkers)

\* 364-373 and 397-399: the rows to map, and the three ways to go on
SelectCases(r) ==
    LET s == run[r]
        valid == ValidTestCases(s.test_cases_df)
        s1 == [s EXCEPT !.scripts_data = <<>>, !.valid_test_cases = valid]
    IN  /\ s.pc = "stage3"
        /\ run' = [run EXCEPT ![r] =
              IF valid = <<>> /\ ~s.generation_failed
              THEN LogYield(s1, Line(MsgNoValid, <<>>, "", 0, None), "finishing")
              ELSE IF valid # <<>>
              THEN LogYield(s1, Line(MsgMapping, <<>>, "", Len(valid), None),
                            "mapping")
              ELSE LogYield(s1, Line(MsgSkipping, <<>>, "", 0, None), "finishing")]
        /\ UNCHANGED <<files, dirExists, client, handler>>

\* variant: the snapshot of a case shows the scripts collected so far
StartCase_ShowScripts(s, index) ==
    LogYield([s EXCEPT !.index = index,
                       !.scripts_df = DataFrame(ScriptColumns, s.scripts_data)],
             Line(MsgScriptFor, <<>>, s.valid_test_cases[index].id, 0, None),
             "in_loop")

\* variant: the line of a case is logged but not shown before the call
StartCase_NoSnapshot(s, index) ==
    [Log([s EXCEPT !.index = index],
         Line(MsgScriptFor, <<>>, s.valid_test_cases[index].id, 0, None))
        EXCEPT !.pc = "in_loop"]

\* 375-379: the line and the snapshot that precede the call for a case
StartCase(s, index) ==
    LogYield([s EXCEPT !.index = index],
             Line(MsgScriptFor, <<>>, s.valid_test_cases[index].id, 0, None),
             "in_loop")

\* first iteration of the loop, up to its yield
FirstCase(r) ==
    LET s == run[r]
    IN  /\ s.pc = "mapping"
        /\ run' = [run EXCEPT ![r] = StartCase(s, 1)]
        /\ UNCHANGED <<files, dirExists, client, handler>>

\* variant: the script table is refreshed after every case
CollectScript_Refresh(s, script_code) ==
    LET row == [id |-> s.valid_test_cases[s.index].id, code |-> script_code]
    IN  [Call(s, "generate_selenium_script") EXCEPT
            !.scripts_data = Append(@, row),
            !.scripts_df = DataFrame(ScriptColumns, Append(s.scripts_data, row))]

\* 381-385: the call for the current case and the accumulation of its
\* result; script_calls keeps, for every call, the row it was made for, the
\* number of snapshots emitted and the number of scripts returned before it
CollectScript(s, script_code) ==
    [Call(s, "generate_selenium_script") EXCEPT
        !.script_calls = Append(@, [test_case |-> s.valid_test_cases[s.index],
                                    snapshots |-> Len(s.out),
                                    returned |-> Len(s.scripts_data)]),
        !.scripts_data = Append(@, [id |-> s.valid_test_cases[s.index].id,
                                    code |-> script_code])]

\* 381-395: the script of the current case, then either the next case up to
\* its yield, or the end of the loop with the script table and its export;
\* apis is what the completion call may do
ScriptGenerationWith(r, apis) ==
    LET s == run[r]
    IN  /\ s.pc = "in_loop"
        /\ \E api \in apis, env \in SaveEnvs :
             LET s1 == CollectScript(s, generate_selenium_script(client, api))
                 s2 == Call([s1 EXCEPT !.scripts_df =
                                DataFrame(ScriptColumns, s1.scripts_data)],
                            "save_scripts_to_excel")
                 saved == save_scripts_to_excel(s1.scripts_data, FileStem(s.url),
                                                dirExists, files, env)
                 s3 == [Logging(s2, "save_scripts_to_excel", saved.level)
                          EXCEPT !.scripts_filepath = saved.ret]
             IN  IF s.index < Len(s.valid_test_cases)
                 THEN /\ run' = [run EXCEPT ![r] = StartCase(s1, s.index + 1)]
                      /\ UNCHANGED <<files, dirExists>>
                 ELSE IF saved.raised
                 THEN /\ run' = [run EXCEPT ![r] =
                                   HandleException(Raise(s2, "save_scripts_to_excel"))]
                      /\ UNCHANGED <<files, dirExists>>
                 ELSE /\ run' = [run EXCEPT ![r] =
                            LogYield(s3, Line(MsgScriptsDone, <<>>, "",
                                              Len(s1.scripts_data), saved.ret),
                                     "finishing")]
                      /\ files' = saved.fs
                      /\ dirExists' = saved.dir
        /\ UNCHANGED <<client, handler>>

ScriptGeneration(r) == ScriptGenerationWith(r, ScriptApiOutcomes)

\* 402-403
Finish(r) ==
    LET s == run[r]
    IN  /\ s.pc = "finishing"
        /\ run' = [run EXCEPT ![r] =
              LogYield(s, Line(MsgFinished, <<>>, "", 0, None), "done")]
        /\ UNCHANGED <<files, dirExists, client, handler>>

(***************************************************************************)
(* One run: run 1 is started with any url and any requested count.  The   *)
(* output directory is created when app.py is loaded (16-18) but may be    *)
(* gone when a run starts, which is why every exporter tests for it again  *)
(* (utils.py:12); nothing removes it while a run is going on.  The GenAI   *)
(* client may have failed to initialise (genai_handler.py:17-22).  No      *)
(* fault can leave generate_test_cases or generate_selenium_script: both   *)
(* catch every Exception.                                                  *)
(***************************************************************************)
NotStarted == InitialLocals(<<>>, 1, "off")

Init ==
    /\ \E url \in SoloUrls, n \in NumTestCasesChoices :
          run = [r \in RunIds |->
                   IF r = 1 THEN InitialLocals(url, n, "start") ELSE NotStarted]
    /\ files = NoFiles
    /\ dirExists \in BOOLEAN
    /\ client \in {"None", "OpenAI"}
    /\ handler = HandlerIdle

Next ==
    \E r \in RunIds :
        \/ ValidateInput(r)
        \/ AnnounceScraping(r)
        \/ Extraction(r)
        \/ AfterExtraction(r)
        \/ AnnounceGeneration(r)
        \/ CaseGeneration(r)
        \/ AfterWarning(r)
        \/ AnnounceScripts(r)
        \/ SelectCases(r)
        \/ FirstCase(r)
        \/ ScriptGeneration(r)
        \/ Finish(r)

Spec == Init /\ [][Next]_vars

\* the consumer keeps pulling and every collaborator call returns or raises
FairSpec == Spec /\ WF_vars(Next)

(***************************************************************************)
(* Properties.                                                             *)
(***************************************************************************)
Last(seq) == seq[Len(seq)]
IsPrefix(a, b) == Len(a) <= Len(b) /\ SubSeq(b, 1, Len(a)) = a
Messages(log) == { log[i].line : i \in 1..Len(log) }
Count(seq, x) == Cardinality({ i \in 1..Len(seq) : seq[i] = x })
Called(r, fn) == \E i \in 1..Len(run[r].calls) : run[r].calls[i] = fn
Ended(r) == run[r].pc = "done"

EmptyTestCases == DataFrame(TestCaseColumns, <<>>)
EmptyScripts == DataFrame(ScriptColumns, <<>>)

InitialTables(snapshot) ==
    /\ snapshot.test_cases_df = EmptyTestCases
    /\ snapshot.scripts_df = EmptyScripts
    /\ snapshot.elements_json_str = EmptyJsonObject

NoArtifacts(snapshot) ==
    /\ snapshot.elements_filepath = None
    /\ snapshot.test_cases_filepath = None
    /\ snapshot.scripts_filepath = None

RejectedUrl(url) ==
    \/ url = <<>>
    \/ ~startswith(url, HttpPrefix) /\ ~startswith(url, HttpsPrefix)

\* C1: a run on a url that is empty or has neither scheme prefix emits
\* exactly one snapshot and then ends; the snapshot's log has the
\* input-error line, its tables and elements view are in their initial
\* state, its three artifact paths are unset, and no collaborator is called.
C1_InvalidUrlOneSnapshot ==
    \A r \in RunIds :
        (run[r].pc # "off" /\ RejectedUrl(run[r].url)) =>
            /\ run[r].calls = <<>>
            /\ Len(run[r].out) <= 1
            /\ (run[r].pc = "start") = (run[r].out = <<>>)
            /\ (run[r].pc = "done") = (Len(run[r].out) = 1)
            /\ \A k \in 1..Len(run[r].out) :
                  /\ MsgInputError \in Messages(run[r].out[k].log)
                  /\ InitialTables(run[r].out[k])
                  /\ NoArtifacts(run[r].out[k])

C1_Witness ==
    \E r \in RunIds :
        /\ run[r].url # <<>>
        /\ RejectedUrl(run[r].url)
        /\ Ended(r)
        /\ Len(run[r].out) = 1

\* C2: in every run the log of each snapshot is a prefix of the log of the
\* next snapshot, on failure paths and in the fault handler too.
C2_LogAppendOnly ==
    \A r \in RunIds :
        \A k \in 1..(Len(run[r].out) - 1) :
            IsPrefix(run[r].out[k].log, run[r].out[k + 1].log)

C2_Witness ==
    \E r \in RunIds :
        /\ Ended(r)
        /\ MsgFinished \in Messages(run[r].status_updates)
        /\ MsgNote \in Messages(run[r].status_updates)
        /\ Len(run[r].out) >= 10

\* the snapshot after which generate_test_cases is called: the one whose
\* log ends with the announcement of the generation
GenerationSnapshot(r) ==
    CHOOSE k \in 1..Len(run[r].out) :
        Last(run[r].out[k].log).line = MsgGenerating

ReturnedCriticalTable(r) ==
    /\ Called(r, "generate_test_cases")
    /\ \/ empty(run[r].generated_tc_df)
       \/ \E i \in 1..Len(run[r].generated_tc_df.rows) :
             run[r].generated_tc_df.rows[i].id = "PARSE_ERROR"

\* C3: when generate_test_cases returns an empty table or a table with a
\* PARSE_ERROR row, the run ends within two further snapshots, the last
\* one carrying the 'stopping' line; generate_selenium_script is never
\* called, the script table is empty in every snapshot and the success line
\* is never logged.
C3_CriticalFailureStops ==
    \A r \in RunIds :
        ReturnedCriticalTable(r) =>
            LET further == Len(run[r].out) - GenerationSnapshot(r)
            IN  /\ further \in 1..2
                /\ Ended(r) = (further = 2)
                /\ Ended(r) => Last(Last(run[r].out).log).line = MsgStopping
                /\ ~Called(r, "generate_selenium_script")
                /\ \A k \in 1..Len(run[r].out) :
                      run[r].out[k].scripts_df = EmptyScripts
                /\ MsgFinished \notin Messages(run[r].status_updates)

C3_Witness ==
    \E r \in RunIds :
        /\ ReturnedCriticalTable(r)
        /\ Len(run[r].generated_tc_df.rows) >= 2
        /\ run[r].generated_tc_df.rows[1].id = "TC001"
        /\ Ended(r)

ExtractionReturnedEmpty(r) ==
    /\ Called(r, "extract_elements")
    /\ run[r].fault # "extract_elements"
    /\ run[r].elements_data = <<>>

\* C4 as stated: when extract_elements returns an empty sequence for a
\* valid url, the final snapshot is the only snapshot of the run; its log
\* has the extraction-failure line and the tables have their initial shape.
C4_Original ==
    \A r \in RunIds :
        ExtractionReturnedEmpty(r) =>
            /\ Ended(r)
            /\ Len(run[r].out) = 1
            /\ MsgExtractFailed \in Messages(Last(run[r].out).log)
            /\ Last(run[r].out).test_cases_df = EmptyTestCases
            /\ Last(run[r].out).scripts_df = EmptyScripts

\* C4 amended: when extract_elements returns an empty sequence for a valid
\* url, the run ends with its third snapshot, after the 'processing
\* started' and 'scraping' snapshots; the log of that final snapshot ends
\* with the extraction-failure line, and the test-case and script tables
\* have their initial empty-with-headers shape in all three snapshots.
C4_ExtractionFailureEndsRun ==
    \A r \in RunIds :
        ExtractionReturnedEmpty(r) =>
            /\ Ended(r)
            /\ Len(run[r].out) = 3
            /\ Last(run[r].out[1].log).line = MsgStarted
            /\ Last(run[r].out[2].log).line = MsgScraping
            /\ Last(run[r].out[3].log).line = MsgExtractFailed
            /\ \A k \in 1..3 :
                  /\ run[r].out[k].test_cases_df = EmptyTestCases
                  /\ run[r].out[k].scripts_df = EmptyScripts

C4_Witness ==
    \E r \in RunIds :
        /\ ExtractionReturnedEmpty(r)
        /\ UrlAccepted(run[r].url)
        /\ Len(run[r].out) = 3

\* the rows that are not error markers, in table order
GenuineRows(rows) ==
    SelectSeq(rows, LAMBDA row : row.id \notin {"PARSE_ERROR", "API_ERROR", "ERROR"})

\* one script per genuine case, in table order, under the case's id
ScriptsMatchCases(r) ==
    LET genuine == GenuineRows(run[r].generated_tc_df.rows)
        scripts == Last(run[r].out).scripts_df.rows
    IN  /\ Len(scripts) = Len(genuine)
        /\ \A i \in 1..Len(genuine) : scripts[i].id = genuine[i].id

ReturnedNonEmptyTable(r) ==
    /\ run[r].elements_data # <<>>
    /\ Called(r, "generate_test_cases")
    /\ ~empty(run[r].generated_tc_df)

\* C5 as stated: in every run where extraction returns an element and
\* generate_test_cases a non-empty table, the final script table has one
\* row per test case whose id is not an error marker, in table order and
\* under that case's id.
C5_Original ==
    \A r \in RunIds :
        (Ended(r) /\ ReturnedNonEmptyTable(r)) => ScriptsMatchCases(r)

\* C5 amended: in every run where extraction returns an element,
\* generate_test_cases returns a non-empty table without a PARSE_ERROR row
\* and the run reaches the final success line, the final script table has
\* one row per test case whose id is not an error marker, in table order
\* and under that case's id.
C5_ScriptsPerGenuineCase ==
    \A r \in RunIds :
        ( /\ Ended(r)
          /\ ReturnedNonEmptyTable(r)
          /\ \A i \in 1..Len(run[r].generated_tc_df.rows) :
                run[r].generated_tc_df.rows[i].id # "PARSE_ERROR"
          /\ Last(run[r].status_updates).line = MsgFinished )
        => ScriptsMatchCases(r)

C5_Witness ==
    \E r \in RunIds :
        /\ Ended(r)
        /\ ReturnedNonEmptyTable(r)
        /\ Last(run[r].status_updates).line = MsgFinished
        /\ Len(run[r].generated_tc_df.rows) = 2
        /\ run[r].generated_tc_df.rows[1].id = "API_ERROR"
        /\ run[r].generated_tc_df.rows[2].id = "TC002"
        /\ Len(Last(run[r].out).scripts_df.rows) = 1

\* a run through the three stages: elements extracted, stage 2 not
\* classified as failed (no warning), final success line reached
SuccessfulRun(r) ==
    /\ Ended(r)
    /\ run[r].elements_data # <<>>
    /\ MsgWarning \notin Messages(run[r].status_updates)
    /\ Last(run[r].status_updates).line = MsgFinished

\* C6 as stated: in every successful three-stage run the final test-case
\* table has at least 1 and at most num_test_cases rows.
C6_Original ==
    \A r \in RunIds :
        SuccessfulRun(r) =>
            /\ Len(Last(run[r].out).test_cases_df.rows) >= 1
            /\ Len(Last(run[r].out).test_cases_df.rows) <= run[r].num_test_cases

\* C6 amended: in every successful three-stage run the final test-case
\* table has at least 1 row; it is the table generate_test_cases returned,
\* whose length is not limited by num_test_cases.
C6_AtLeastOneCase ==
    \A r \in RunIds :
        SuccessfulRun(r) =>
            /\ Len(Last(run[r].out).test_cases_df.rows) >= 1
            /\ Last(run[r].out).test_cases_df = run[r].generated_tc_df

C6_Witness ==
    \E r \in RunIds :
        /\ SuccessfulRun(r)
        /\ Len(Last(run[r].out).test_cases_df.rows) > run[r].num_test_cases

Populated(path) == path # None

\* C9: within a run every field of the state is stable once populated: a
\* field that is non-empty or set in a snapshot has the same value in every
\* later snapshot.
C9_StableOncePopulated ==
    \A r \in RunIds :
        \A k \in 1..Len(run[r].out) : \A j \in (k + 1)..Len(run[r].out) :
            LET a == run[r].out[k]
                b == run[r].out[j]
            IN  /\ a.elements_json_str # EmptyJsonObject =>
                      b.elements_json_str = a.elements_json_str
                /\ a.test_cases_df.rows # <<>> => b.test_cases_df = a.test_cases_df
                /\ a.scripts_df.rows # <<>> => b.scripts_df = a.scripts_df
                /\ Populated(a.elements_filepath) =>
                      b.elements_filepath = a.elements_filepath
                /\ Populated(a.test_cases_filepath) =>
                      b.test_cases_filepath = a.test_cases_filepath
                /\ Populated(a.scripts_filepath) =>
                      b.scripts_filepath = a.scripts_filepath

C9_Witness ==
    \E r \in RunIds :
        /\ Ended(r)
        /\ Len(Last(run[r].out).scripts_df.rows) = 2
        /\ Last(run[r].out).elements_filepath.name # <<>>
        /\ Last(run[r].out).test_cases_filepath.name # <<>>
        /\ Last(run[r].out).scripts_filepath.name # <<>>
        /\ \E k \in 1..Len(run[r].out) :
              /\ run[r].out[k].test_cases_df.rows # <<>>
              /\ run[r].out[k].scripts_df.rows = <<>>

TerminalMessages ==
    {MsgInputError, MsgExtractFailed, MsgStopping, MsgFinished, MsgCritical}

\* every collaborator is called at most once, the script generator at most
\* once per valid case
NoRetry(r) ==
    /\ \A fn \in {"extract_elements", "save_elements_to_json",
                  "generate_test_cases", "save_test_cases_to_excel",
                  "save_scripts_to_excel"} : Count(run[r].calls, fn) <= 1
    /\ Count(run[r].calls, "generate_selenium_script")
          <= Len(run[r].valid_test_cases)

\* C10: when the consumer keeps pulling and every collaborator call returns
\* or raises, a run emits finitely many snapshots and ends; its last
\* snapshot is the input-error, extraction-failure, 'stopping',
\* final-success or unhandled-fault snapshot; no collaborator call is
\* repeated.
C10_RunTerminates ==
    /\ <>(\A r \in RunIds : run[r].pc \in {"off", "done"})
    /\ [](\A r \in RunIds :
            /\ NoRetry(r)
            /\ Len(run[r].out) <= 10 + Len(run[r].generated_tc_df.rows)
            /\ Ended(r) =>
                  /\ run[r].out # <<>>
                  /\ Last(Last(run[r].out).log).line \in TerminalMessages
                  /\ Last(run[r].out).log = run[r].status_updates)

C10_Witness ==
    \E r \in RunIds :
        /\ Ended(r)
        /\ Last(run[r].status_updates).line = MsgFinished
        /\ Count(run[r].calls, "generate_selenium_script") = 2
        /\ Len(run[r].out) = 12

Exporters ==
    {"save_elements_to_json", "save_test_cases_to_excel", "save_scripts_to_excel"}

\* the artifact path field that holds what exporter fn returned
ArtifactPath(snapshot, fn) ==
    CASE fn = "save_elements_to_json" -> snapshot.elements_filepath
      [] fn = "save_test_cases_to_excel" -> snapshot.test_cases_filepath
      [] fn = "save_scripts_to_excel" -> snapshot.scripts_filepath

\* exporter fn returned its failure indicator in run r (it logs an error
\* exactly then)
PersistFailed(r, fn) ==
    \E i \in 1..Len(run[r].logging) :
        run[r].logging[i] = [fn |-> fn, level |-> "ERROR"]

\* C11: when an exporter returns its failure indicator the run is not
\* aborted (no fault, and it ends as it does after a successful export), the
\* failure is logged, and the artifact path field of that exporter is unset
\* (None, its initial value) in every snapshot of the run.
C11_Original ==
    \A r \in RunIds : \A fn \in Exporters :
        PersistFailed(r, fn) =>
            /\ run[r].fault = ""
            /\ Ended(r) =>
                  Last(run[r].status_updates).line \in {MsgFinished, MsgStopping}
            /\ \A k \in 1..Len(run[r].out) :
                  ArtifactPath(run[r].out[k], fn) = None

(***************************************************************************)
(* Two runs at once (two users of the same server process, app.py:492-503  *)
(* and 521): both generators are created, the consumers pull them in any   *)
(* order.  The runs share the output directory and the GenAI client; every *)
(* other piece of state is a local of the generator.  The                  *)
(* collaborators answer from smaller sets than in Spec: the extractor      *)
(* raises or returns two elements or one more than the prompt takes, the   *)
(* completion call for the test cases raises, answers prose, or answers    *)
(* one well-formed record.                                                 *)
(***************************************************************************)
ConcurrentExtractOutcomes ==
    [raises : {TRUE}, n : {0}]
    \cup [raises : {FALSE}, n : {2, max_elements_for_ai + 1}]

ConcurrentApiOutcomes ==
    { [raises |-> "RateLimitError", content |-> NoContent],
      [raises |-> "",
       content |-> [kind |-> "prose", tag |-> "", padded |-> FALSE,
                    items |-> <<>>]],
      [raises |-> "",
       content |-> [kind |-> "json_list", tag |-> "", padded |-> FALSE,
                    items |-> <<FullDict("TC001")>>]] }

ConcurrentInit ==
    /\ \E url1 \in SoloUrls \cap ValidUrls, url2 \in ValidUrls :
          run = [r \in RunIds |->
                   InitialLocals(IF r = 1 THEN url1 ELSE url2, 1, "start")]
    /\ files = NoFiles
    /\ dirExists \in BOOLEAN
    /\ client \in {"None", "OpenAI"}
    /\ handler = HandlerIdle

ConcurrentNext ==
    \E r \in RunIds :
        \/ ValidateInput(r)
        \/ AnnounceScraping(r)
        \/ ExtractionWith(r, ConcurrentExtractOutcomes)
        \/ AfterExtraction(r)
        \/ AnnounceGeneration(r)
        \/ CaseGenerationWith(r, ConcurrentApiOutcomes)
        \/ AfterWarning(r)
        \/ AnnounceScripts(r)
        \/ SelectCases(r)
        \/ FirstCase(r)
        \/ ScriptGenerationWith(r, ScriptApiOutcomes)
        \/ Finish(r)

ConcurrentSpec == ConcurrentInit /\ [][ConcurrentNext]_vars

(***************************************************************************)
(* The run process_website makes on its own, written as a function of its  *)
(* arguments, the client and what its collaborators answered: the elements *)
(* returned, the table returned, the scripts returned, the paths returned, *)
(* and the call that raised, all as the run s recorded them.  It goes as   *)
(* far as the answers received allow.  A step is the lines appended since  *)
(* the previous yield and the fields shown at the yield.                   *)
(***************************************************************************)
SoloView0 ==
    [elements_json_str |-> EmptyJsonObject,
     test_cases_df |-> EmptyTestCases,
     scripts_df |-> EmptyScripts,
     elements_filepath |-> None,
     test_cases_filepath |-> None,
     scripts_filepath |-> None]

SoloStep(lines, view) == [lines |-> lines, view |-> view]

SoloLine(msg) == Line(msg, <<>>, "", 0, None)

WasCalled(s, fn) == \E i \in 1..Len(s.calls) : s.calls[i] = fn

\* stage 3 and the completion, after the steps pre, with the fields v
SoloStage3(s, pre, v, failed) ==
    LET valid == GenuineRows(v.test_cases_df.rows)
        p3 == Append(pre, SoloStep(<<SoloLine(MsgScripts)>>, v))
        m == Len(s.scripts_data)
        started == IF m < Len(valid) THEN m + 1 ELSE Len(valid)
        p4 == Append(p3, SoloStep(<<Line(MsgMapping, <<>>, "", Len(valid), None)>>, v))
              \o [i \in 1..started |->
                    SoloStep(<<Line(MsgScriptFor, <<>>, valid[i].id, 0, None)>>, v)]
        v5 == [v EXCEPT !.scripts_df =
                  DataFrame(ScriptColumns,
                            [i \in 1..Len(valid) |->
                                [id |-> valid[i].id, code |-> s.scripts_data[i].code]])]
        v6 == [v5 EXCEPT !.scripts_filepath = s.scripts_filepath]
    IN  IF valid = <<>> /\ ~failed
        THEN p3 \o <<SoloStep(<<SoloLine(MsgNoValid)>>, v),
                     SoloStep(<<SoloLine(MsgFinished)>>, v)>>
        ELSE IF valid = <<>>
        THEN p3 \o <<SoloStep(<<SoloLine(MsgSkipping)>>, v),
                     SoloStep(<<SoloLine(MsgFinished)>>, v)>>
        ELSE IF m < Len(valid) THEN p4
        ELSE IF s.fault = "save_scripts_to_excel"
        THEN Append(p4, SoloStep(<<SoloLine(MsgCritical)>>, v5))
        ELSE p4 \o <<SoloStep(<<Line(MsgScriptsDone, <<>>, "", m,
                                     s.scripts_filepath)>>, v6),
                     SoloStep(<<SoloLine(MsgFinished)>>, v6)>>

\* stage 2, after the steps pre, with the fields v
SoloStage2(s, pre, v) ==
    LET df == s.generated_tc_df
        failed == empty(df) \/ \E i \in 1..Len(df.rows) :
                                   df.rows[i].id \in {"PARSE_ERROR", "API_ERROR", "ERROR"}
        parse_error == \E i \in 1..Len(df.rows) : df.rows[i].id = "PARSE_ERROR"
        warning == SoloLine(MsgWarning)
        v3 == [v EXCEPT !.test_cases_df = df]
        v4 == [v3 EXCEPT !.test_cases_filepath = s.test_cases_filepath]
    IN  IF ~WasCalled(s, "generate_test_cases") THEN pre
        ELSE IF failed /\ empty(df)
        THEN pre \o <<SoloStep(<<warning>>, v),
                      SoloStep(<<SoloLine(MsgStopping)>>, v)>>
        ELSE IF failed /\ s.fault = "save_test_cases_to_excel"
        THEN Append(pre, SoloStep(<<warning, SoloLine(MsgCritical)>>, v3))
        ELSE IF failed /\ parse_error
        THEN pre \o <<SoloStep(<<warning>>, v4),
                      SoloStep(<<SoloLine(MsgStopping)>>, v4)>>
        ELSE IF failed
        THEN SoloStage3(s, Append(pre, SoloStep(<<warning>>, v4)), v4, TRUE)
        ELSE IF s.fault = "save_test_cases_to_excel"
        THEN Append(pre, SoloStep(<<SoloLine(MsgCritical)>>, v3))
        ELSE SoloStage3(s,
                 Append(pre, SoloStep(<<Line(MsgGenerated, <<>>, "",
                                             Len(df.rows), s.test_cases_filepath)>>,
                                      v4)),
                 v4, FALSE)

SoloSteps(s) ==
    LET v0 == SoloView0
        pre == <<SoloStep(<<SoloLine(MsgStarted)>>, v0),
                 SoloStep(<<Line(MsgScraping, s.url, "", 0, None)>>, v0)>>
        n == Len(s.elements_data)
        v1 == [v0 EXCEPT !.elements_json_str =
                  [kind |-> "list", items |-> s.elements_data]]
        v2 == [v1 EXCEPT !.elements_filepath = s.elements_filepath]
        st1 == Append(pre, SoloStep(<<Line(MsgExtracted, <<>>, "", n,
                                           s.elements_filepath)>>, v2))
               \o (IF n > 100
                   THEN <<SoloStep(<<Line(MsgNote, <<>>, "", 100, None)>>, v2)>>
                   ELSE <<>>)
               \o <<SoloStep(<<Line(MsgGenerating, <<>>, "", s.num_test_cases,
                                    None)>>, v2)>>
    IN  IF s.url = <<>> \/ (~startswith(s.url, HttpPrefix)
                             /\ ~startswith(s.url, HttpsPrefix))
        THEN <<SoloStep(<<SoloLine(MsgInputError)>>, v0)>>
        ELSE IF ~WasCalled(s, "extract_elements") THEN pre
        ELSE IF s.fault = "extract_elements"
        THEN Append(pre, SoloStep(<<SoloLine(MsgCritical)>>, v0))
        ELSE IF n = 0
        THEN Append(pre, SoloStep(<<SoloLine(MsgExtractFailed)>>, v0))
        ELSE IF s.fault = "save_elements_to_json"
        THEN Append(pre, SoloStep(<<SoloLine(MsgCritical)>>, v1))
        ELSE SoloStage2(s, st1, v2)

RECURSIVE Concat(_)
Concat(seqs) == IF seqs = <<>> THEN <<>> ELSE Head(seqs) \o Concat(Tail(seqs))

\* the snapshots of the steps: the fields, and the lines appended so far
SoloRun(s) ==
    LET steps == SoloSteps(s)
    IN  [k \in 1..Len(steps) |->
            [elements_json_str |-> steps[k].view.elements_json_str,
             test_cases_df |-> steps[k].view.test_cases_df,
             scripts_df |-> steps[k].view.scripts_df,
             elements_filepath |-> steps[k].view.elements_filepath,
             test_cases_filepath |-> steps[k].view.test_cases_filepath,
             scripts_filepath |-> steps[k].view.scripts_filepath,
             log |-> Concat([i \in 1..k |-> steps[i].lines])]]

\* what a run has emitted is what it emits on its own with the same
\* answers, all of it once the run has ended
SameAsAlone(r) ==
    /\ IsPrefix(run[r].out, SoloRun(run[r]))
    /\ Ended(r) => run[r].out = SoloRun(run[r])

\* under Spec, where run 1 is alone: SoloRun is the run of the model
SoloRunIsRunAlone == run[1].pc # "off" => SameAsAlone(1)

\* C12: in every interleaving of two concurrent runs, the snapshot sequence
\* of each run (log, elements, test-case table, script table, paths) is the
\* sequence the run produces alone with the same collaborator answers.
C12_RunsIsolated == \A r \in RunIds : SameAsAlone(r)

C12_Witness ==
    /\ \A r \in RunIds :
          Ended(r) /\ Last(run[r].status_updates).line = MsgFinished
    /\ run[1].url # run[2].url
    /\ run[1].generated_tc_df # run[2].generated_tc_df
    /\ Len(run[1].out) # Len(run[2].out)
    /\ Len(run[2].scripts_df.rows) = 1

\* generate_test_cases returned one row whose id is API_ERROR or ERROR
ReturnedSoftFailure(r) ==
    /\ Called(r, "generate_test_cases")
    /\ Len(run[r].generated_tc_df.rows) = 1
    /\ run[r].generated_tc_df.rows[1].id \in {"API_ERROR", "ERROR"}

\* C13: when generate_test_cases returns a single row whose id is API_ERROR
\* or ERROR, the table is shown from the next snapshot on and handed to
\* save_test_cases_to_excel (which writes it under the "_error" name unless
\* the write fails), that next snapshot is the warning snapshot, the run
\* does not stop at stage 2 and has no fault, generate_selenium_script is
\* never called, the script table is empty in every snapshot, and the run
\* ends after the 'stage 3', 'skipping' and final success snapshots.
C13_SoftFailureCompletes ==
    \A r \in RunIds :
        ReturnedSoftFailure(r) =>
            LET g == GenerationSnapshot(r)
                n == Len(run[r].out)
                path == run[r].test_cases_filepath
            IN  /\ n \in (g + 1)..(g + 4)
                /\ Ended(r) = (n = g + 4)
                /\ run[r].fault = ""
                /\ \A k \in (g + 1)..n :
                      run[r].out[k].test_cases_df = run[r].generated_tc_df
                /\ Called(r, "save_test_cases_to_excel")
                /\ path \in {EmptyPath,
                             JoinPath("test_cases_", FileStem(run[r].url),
                                      "_error.xlsx")}
                /\ path # EmptyPath =>
                      /\ path.name \in DOMAIN files
                      /\ files[path.name].rows = run[r].generated_tc_df.rows
                /\ Last(run[r].out[g + 1].log).line = MsgWarning
                /\ n >= g + 2 => Last(run[r].out[g + 2].log).line = MsgScripts
                /\ n >= g + 3 => Last(run[r].out[g + 3].log).line = MsgSkipping
                /\ n >= g + 4 => Last(run[r].out[g + 4].log).line = MsgFinished
                /\ MsgStopping \notin Messages(run[r].status_updates)
                /\ ~Called(r, "generate_selenium_script")
                /\ \A k \in 1..n : run[r].out[k].scripts_df = EmptyScripts

C13_Witness ==
    \E r \in RunIds :
        /\ ReturnedSoftFailure(r)
        /\ run[r].generated_tc_df.rows[1].id = "ERROR"
        /\ run[r].generated_tc_df.rows[1].scenario = Plain("Unexpected Error")
        /\ Ended(r)
        /\ Last(Last(run[r].out).log).line = MsgFinished
        /\ MsgSkipping \in Messages(Last(run[r].out).log)

\* C14: in a run that enters the stage-3 loop, generate_selenium_script is
\* called for the rows of the test-case table that are not error markers,
\* once each and in table order, and for no other row; the last snapshot
\* emitted before each call ends with the 'starting' line of that case; each
\* call is made after the previous one has returned.  Outside that loop the
\* function is never called.
C14_ScriptCallsInOrder ==
    \A r \in RunIds :
        LET genuine == GenuineRows(run[r].test_cases_df.rows)
            made == run[r].script_calls
        IN  /\ Count(run[r].calls, "generate_selenium_script") = Len(made)
            /\ MsgMapping \notin Messages(run[r].status_updates) => made = <<>>
            /\ Len(made) <= Len(genuine)
            /\ Ended(r) /\ MsgMapping \in Messages(run[r].status_updates) =>
                  Len(made) = Len(genuine)
            /\ \A i \in 1..Len(made) :
                  /\ made[i].test_case = genuine[i]
                  /\ made[i].test_case.id \notin ErrorMarkers
                  /\ made[i].snapshots \in 1..Len(run[r].out)
                  /\ Last(run[r].out[made[i].snapshots].log) =
                        Line(MsgScriptFor, <<>>, genuine[i].id, 0, None)
                  /\ made[i].returned = i - 1
                  /\ i > 1 => made[i].snapshots > made[i - 1].snapshots

C14_Witness ==
    \E r \in RunIds :
        /\ Ended(r)
        /\ Len(run[r].script_calls) = 2
        /\ run[r].script_calls[1].test_case.id = "TC002"
        /\ run[r].script_calls[2].test_case.id = "TC001"
        /\ run[r].script_calls[2].snapshots = run[r].script_calls[1].snapshots + 1

\* the snapshots of run r whose log ends with the line msg
SnapshotsEndingWith(r, msg) ==
    { k \in 1..Len(run[r].out) : Last(run[r].out[k].log).line = msg }

\* C15: the elements handed to generate_test_cases are the first 100
\* extracted elements, in extraction order, when more than 100 were
\* extracted, and all of them otherwise; the snapshots show, and
\* save_elements_to_json writes, the full sequence; the truncation note is
\* logged exactly when more than 100 elements were extracted, in a snapshot
\* of its own between the 'extracted' and the 'generating' snapshots.
C15_TruncatedView ==
    \A r \in RunIds :
        LET n == Len(run[r].elements_data)
            view == run[r].prompt_elements
            path == run[r].elements_filepath
            notes == SnapshotsEndingWith(r, MsgNote)
        IN  /\ Called(r, "generate_test_cases") =>
                  /\ Len(view) = (IF n > 100 THEN 100 ELSE n)
                  /\ \A i \in 1..Len(view) : view[i] = run[r].elements_data[i]
            /\ \A k \in 1..Len(run[r].out) :
                  run[r].out[k].elements_json_str \in
                      {EmptyJsonObject, json_dumps(run[r].elements_data)}
            /\ (path # None /\ path # EmptyPath) =>
                  files[path.name].elements = run[r].elements_data
            /\ Count([i \in 1..Len(run[r].status_updates) |->
                         run[r].status_updates[i].line], MsgNote) = Cardinality(notes)
            /\ notes # {} => n > 100
            /\ MsgGenerating \in Messages(run[r].status_updates) =>
                  (notes # {}) = (n > 100)
            /\ \A k \in notes :
                  /\ Last(run[r].out[k - 1].log).line = MsgExtracted
                  /\ Len(run[r].out[k].log) = Len(run[r].out[k - 1].log) + 1
                  /\ k < Len(run[r].out) =>
                        Last(run[r].out[k + 1].log).line = MsgGenerating

C15_Witness ==
    \E r \in RunIds :
        /\ Len(run[r].elements_data) = 101
        /\ Called(r, "generate_test_cases")
        /\ Len(run[r].prompt_elements) = 100
        /\ Last(run[r].out).elements_json_str.items = run[r].elements_data
        /\ SnapshotsEndingWith(r, MsgNote) # {}
        /\ run[r].elements_filepath.name \in DOMAIN files

\* the script table of snapshot has one row per row of its test-case table
\* that is not an error marker, in order and under that row's id
CompleteScripts(snapshot) ==
    LET valid == GenuineRows(snapshot.test_cases_df.rows)
        scripts == snapshot.scripts_df.rows
    IN  /\ Len(scripts) = Len(valid)
        /\ \A i \in 1..Len(valid) : scripts[i].id = valid[i].id

\* C16: in every snapshot the script table is empty or complete.  The
\* scripts returned in the loop are kept in the accumulator: the snapshots
\* of the loop show an empty table, and the first snapshot with scripts is
\* the one emitted after the loop, which shows all of them.
C16_ScriptsEmptyOrComplete ==
    \A r \in RunIds :
        LET shown == { k \in 1..Len(run[r].out) :
                          run[r].out[k].scripts_df.rows # <<>> }
        IN  /\ \A k \in 1..Len(run[r].out) :
                  \/ run[r].out[k].scripts_df = EmptyScripts
                  \/ /\ CompleteScripts(run[r].out[k])
                     /\ run[r].out[k].scripts_df =
                           DataFrame(ScriptColumns, run[r].scripts_data)
            /\ \A k \in SnapshotsEndingWith(r, MsgScriptFor) : k \notin shown
            /\ \A k \in shown :
                  /\ Last(run[r].out[k].log).line \in {MsgScriptsDone, MsgFinished}
                  /\ (Last(run[r].out[k].log).line = MsgScriptsDone) =
                        (\A j \in shown : k <= j)

C16_Witness ==
    \E r \in RunIds :
        /\ run[r].pc = "finishing"
        /\ Len(Last(run[r].out).scripts_df.rows) = 2
        /\ \E k \in SnapshotsEndingWith(r, MsgScriptFor) :
              /\ run[r].out[k].log[Len(run[r].out[k].log)].id =
                    run[r].scripts_data[2].id
              /\ run[r].out[k].scripts_df = EmptyScripts

(***************************************************************************)
(* generate_test_cases on its own: the client is there or not, the         *)
(* completion call raises or answers any of the contents, and the call     *)
(* returns its table.                                                      *)
(***************************************************************************)
HandlerInit ==
    /\ run = [r \in RunIds |-> NotStarted]
    /\ files = NoFiles
    /\ dirExists = TRUE
    /\ client \in {"None", "OpenAI"}
    /\ \E api \in ApiOutcomes :
          handler = [HandlerIdle EXCEPT !.phase = "called", !.api = api]

\* genai_handler.py:46-129, from the call to the return
HandlerReturn ==
    /\ handler.phase = "called"
    /\ handler' =
          [handler EXCEPT
              !.phase = "returned",
              !.parsed = IF client = "None" \/ handler.api.raises # ""
                         THEN <<>>
                         ELSE parse_ai_test_cases(strip(handler.api.content)),
              !.table = generate_test_cases(client, handler.api)]
    /\ UNCHANGED <<run, files, dirExists, client>>

HandlerSpec == HandlerInit /\ [][HandlerReturn]_vars

\* the completion call answered a text and the handler has returned
ReturnedFromText ==
    /\ handler.phase = "returned"
    /\ client = "OpenAI"
    /\ handler.api.raises = ""

\* the text parses as a non-empty list of records whose first record has
\* the four required keys
WellFormed(text) ==
    /\ text.kind = "json_list"
    /\ text.items # <<>>
    /\ \A i \in 1..Len(text.items) : text.items[i].isDict
    /\ {"Test Case ID", "Test Scenario", "Steps to Execute", "Expected Result"}
          \subseteq text.items[1].keys

\* the table is the placeholder of a rejected text: one row, id PARSE_ERROR,
\* with steps in the steps field
ParseErrorTable(table, steps) ==
    /\ Len(table.rows) = 1
    /\ table.rows[1].id = "PARSE_ERROR"
    /\ table.rows[1].steps = steps

AllGenuine(table) ==
    \A i \in 1..Len(table.rows) : table.rows[i].id \notin ErrorMarkers

OneErrorMarker(table) ==
    Len(table.rows) = 1 /\ table.rows[1].id \in ErrorMarkers

C20_NoValidBranchUnreachable ==
    \A r \in RunIds :
        /\ MsgNoValid \notin Messages(run[r].status_updates)
        /\ (Called(r, "generate_test_cases") /\ ~run[r].generation_failed) =>
              /\ GenuineRows(run[r].generated_tc_df.rows) # <<>>
              /\ GenuineRows(run[r].generated_tc_df.rows) = run[r].generated_tc_df.rows
        /\ (MsgMapping \in Messages(run[r].status_updates)
               \/ MsgSkipping \in Messages(run[r].status_updates)) =>
              (run[r].valid_test_cases = <<>>) =
                  (MsgSkipping \in Messages(run[r].status_updates))
        /\ MsgSkipping \in Messages(run[r].status_updates) => run[r].generation_failed

C20_Witness ==
    \E r \in RunIds :
        /\ run[r].pc = "mapping"
        /\ ~run[r].generation_failed
        /\ Len(run[r].valid_test_cases) = 2
        /\ run[r].valid_test_cases[2].id = "NaN"

\* what run r handed to exporter fn
Persisted(r, fn) ==
    CASE fn = "save_elements_to_json" ->
            FileContent(run[r].elements_data, <<>>, <<>>)
      [] fn = "save_test_cases_to_excel" ->
            FileContent(<<>>, run[r].test_cases_df.columns,
                        run[r].test_cases_df.rows)
      [] fn = "save_scripts_to_excel" ->
            FileContent(<<>>, ScriptColumns, run[r].scripts_data)

\* C21: with two runs going on at once, on equal urls or on different ones,
\* when a run has emitted its terminal snapshot every artifact path of that
\* snapshot names a file whose content is what that same run persisted.
C21_Original ==
    \A r \in RunIds : \A fn \in Exporters :
        LET path == ArtifactPath(Last(run[r].out), fn)
        IN  (Ended(r) /\ path # None /\ path # EmptyPath) =>
                /\ path.name \in DOMAIN files
                /\ files[path.name] = Persisted(r, fn)

====
